---- MODULE Spec2Model ----
(***************************************************************************)
(* Model of the Editor component of src/components/ModelLoader.tsx: the    *)
(* click list, the current mask (output), the retained masks (predMasks),  *)
(* the edit/preview mode, the requests posted to the sandboxed model and   *)
(* the scale arithmetic that maps canvas points to stored clicks.          *)
(*                                                                         *)
(* sent is the log of the feeds posted to the sandbox and inflight the ones *)
(* not answered yet; event is the event handled last; lastReceived is a    *)
(* history variable: the mask received last since the click list was last  *)
(* empty, NoTensor when there is none.                                     *)
(*                                                                         *)
(* rendered is the cutout blob offered to Copy and Download and rendering   *)
(* the set of masks whose cutout is still being converted to a blob.       *)
(*                                                                         *)
(* Every React event handler is one action; the state updates it queues    *)
(* and the effect that the re-render runs (the request effect, whose       *)
(* dependency list holds clicks) are part of the same action.              *)
(* Numbers are exact rationals <<numerator, denominator>> in lowest terms. *)
(***************************************************************************)
EXTENDS Integers, Sequences, FiniteSets, TLC

VARIABLES bitmap, frame, clicks, output, predMasks, mode, sent, inflight, event,
          lastReceived, rendered, rendering

vars == <<bitmap, frame, clicks, output, predMasks, mode, sent, inflight, event,
          lastReceived, rendered, rendering>>

----------------------------------------------------------------------------
(* Bounds of the exploration *)

\* longest click list explored
MaxClicks == 2

\* number of requests posted to the model in one behaviour
MaxRequests == 3

\* image extents <<width, height>>: a portrait one, whose longer side passes
\* 1333 under the scale 500 / min, and a landscape one, whose does not
Extents == {<<100, 300>>, <<400, 200>>}

\* frame sizes <<width, height>> offered by the layout
Frames == {<<200, 150>>}

\* canvas points <<x, y>> the user clicks
CanvasPoints == {<<10, 20>>, <<40, 30>>}

----------------------------------------------------------------------------
(* Exact rational arithmetic standing in for JavaScript numbers *)

Abs(n) == IF n < 0 THEN -n ELSE n

RECURSIVE GCD(_, _)
GCD(a, b) == IF b = 0 THEN a ELSE GCD(b, a % b)

Norm(n, d) ==
    LET g == GCD(Abs(n), Abs(d))
        s == IF d < 0 THEN -1 ELSE 1
    IN  <<(s * n) \div g, (s * d) \div g>>

Num(n) == <<n, 1>>

RatMul(a, b) == Norm(a[1] * b[1], a[2] * b[2])

RatDiv(a, b) == Norm(a[1] * b[2], a[2] * b[1])

RatGT(a, b) == a[1] * b[2] > b[1] * a[2]

RatMin(a, b) == IF RatGT(a, b) THEN b ELSE a

MathMax(a, b) == IF a > b THEN a ELSE b

MathMin(a, b) == IF a < b THEN a ELSE b

----------------------------------------------------------------------------
(* Constants and pure computations of the component *)

UPLOAD_IMAGE_SIZE == 1024

IMAGE_SIZE == 500

\* const uploadScale = UPLOAD_IMAGE_SIZE / Math.max(bitmap.height, bitmap.width)
uploadScale(bm) == RatDiv(Num(UPLOAD_IMAGE_SIZE), Num(MathMax(bm[2], bm[1])))

\* the preview scale as the request effect computes it
EffectScale(bm) ==
    LET d     == MathMin(bm[1], bm[2])
        scale == RatDiv(Num(IMAGE_SIZE), Num(d))
    IN  IF RatGT(RatMul(Num(d), scale), Num(1333))
        THEN RatDiv(Num(1333), Num(d))
        ELSE scale

\* the preview scale as onMaskClick computes it
ClickScale(bm) ==
    LET d     == MathMin(bm[1], bm[2])
        scale == RatDiv(Num(IMAGE_SIZE), Num(d))
    IN  IF RatGT(RatMul(Num(d), scale), Num(1333))
        THEN RatDiv(Num(1333), Num(d))
        ELSE scale

\* onnxScale derived on its own from the two target sizes
onnxScale_Independent(scale, us) == RatDiv(Num(IMAGE_SIZE), Num(UPLOAD_IMAGE_SIZE))

\* onnxScale of the request metadata
onnxScale(scale, us) == RatDiv(scale, us)

\* the scale metadata sent with a request
modelScale(bm) ==
    LET scale == EffectScale(bm)
        us    == uploadScale(bm)
    IN  [ onnxScale   |-> onnxScale(scale, us),
          maskWidth   |-> RatMul(Num(bm[1]), us),
          maskHeight  |-> RatMul(Num(bm[2]), us),
          scale       |-> scale,
          uploadScale |-> us,
          width       |-> bm[1],
          height      |-> bm[2] ]

\* scaleToFit, handed to the Renderer as canvasScale
scaleToFit(fr, bm) ==
    RatMin(RatDiv(Num(fr[1]), Num(bm[1])), RatDiv(Num(fr[2]), Num(bm[2])))

\* svgScale handed to the Renderer
svgScale(bm) == RatDiv(Num(MathMax(bm[2], bm[1])), Num(UPLOAD_IMAGE_SIZE))

\* the path drawn without the svgScale factor
PathScale_NoSvgScale(fr, bm) == scaleToFit(fr, bm)

\* the scale the Renderer draws the mask path with
PathScale(fr, bm) == RatMul(scaleToFit(fr, bm), svgScale(bm))

\* the click scaled by, not divided by, scaleToFit
onMaskClick_TimesCanvasScale(x, y, fr, bm) ==
    [ x |-> RatMul(RatMul(Num(x), ClickScale(bm)), scaleToFit(fr, bm)),
      y |-> RatMul(RatMul(Num(y), ClickScale(bm)), scaleToFit(fr, bm)) ]

\* the click onMaskClick appends for the canvas point (x, y)
onMaskClick(x, y, fr, bm) ==
    [ x |-> RatDiv(RatMul(Num(x), ClickScale(bm)), scaleToFit(fr, bm)),
      y |-> RatDiv(RatMul(Num(y), ClickScale(bm)), scaleToFit(fr, bm)) ]

\* Undo dropping the first click instead of the last
UndoClicks_DropFirst(cl) == Tail(cl)

\* the click list after Undo
UndoClicks(cl) == SubSeq(cl, 1, Len(cl) - 1)

----------------------------------------------------------------------------
(* Tensors and messages *)

\* output === undefined, last_pred_mask === null
NoTensor == [kind |-> "none", req |-> 0]

\* event.data.output and event.data.mask of the response to request id
OutputOf(id) == [kind |-> "output", req |-> id]

MaskOf(id) == [kind |-> "mask", req |-> id]

\* rendered === null
NoBlob == [kind |-> "none", req |-> 0]

\* the cutout blob made from the mask of the response to request id
BlobOf(id) == [kind |-> "blob", req |-> id]

\* last_pred_mask of a request
last_pred_mask(pm) == IF Len(pm) > 0 THEN pm[Len(pm)] ELSE NoTensor

\* the feeds posted to the sandbox
Feeds(cl, pm, bm) ==
    [ clicks         |-> cl,
      modelScale     |-> modelScale(bm),
      last_pred_mask |-> last_pred_mask(pm) ]

\* whether modelData returns feeds: it does for every non-empty click list
modelDataBuilds(cl) == Len(cl) > 0

Ev(t, x, y, r) == [type |-> t, x |-> x, y |-> y, req |-> r]

----------------------------------------------------------------------------
(* State machine *)

\* the state after the Editor is mounted: the request effect has run once
\* with an empty click list
Init ==
    /\ bitmap \in Extents
    /\ frame \in Frames
    /\ clicks = <<>>
    /\ output = NoTensor
    /\ predMasks = <<>>
    /\ mode = "edit"
    /\ sent = <<>>
    /\ inflight = {}
    /\ event = Ev("mount", 0, 0, 0)
    /\ lastReceived = NoTensor
    /\ rendered = NoBlob
    /\ rendering = {}

\* the effect leaving the masks in place when the click list is empty
RequestEffect_NoClear(cl) ==
    IF Len(cl) = 0
    THEN UNCHANGED <<output, predMasks, sent, inflight>>
    ELSE IF ~modelDataBuilds(cl)
    THEN UNCHANGED <<output, predMasks, sent, inflight>>
    ELSE /\ sent' = Append(sent, Feeds(cl, predMasks, bitmap))
         /\ inflight' = inflight \cup {Len(sent) + 1}
         /\ UNCHANGED <<output, predMasks>>

\* the effect blanking the current mask while a request is pending
RequestEffect_ClearWhilePending(cl) ==
    IF Len(cl) = 0
    THEN /\ output' = NoTensor
         /\ predMasks' = <<>>
         /\ UNCHANGED <<sent, inflight>>
    ELSE IF ~modelDataBuilds(cl)
    THEN UNCHANGED <<output, predMasks, sent, inflight>>
    ELSE /\ sent' = Append(sent, Feeds(cl, predMasks, bitmap))
         /\ inflight' = inflight \cup {Len(sent) + 1}
         /\ output' = NoTensor
         /\ UNCHANGED predMasks

\* the effect that runs when clicks has changed to cl
RequestEffect(cl) ==
    IF Len(cl) = 0
    THEN /\ output' = NoTensor
         /\ predMasks' = <<>>
         /\ UNCHANGED <<sent, inflight>>
    ELSE IF ~modelDataBuilds(cl)
    THEN UNCHANGED <<output, predMasks, sent, inflight>>
    ELSE /\ sent' = Append(sent, Feeds(cl, predMasks, bitmap))
         /\ inflight' = inflight \cup {Len(sent) + 1}
         /\ UNCHANGED <<output, predMasks>>

\* the Renderer's effect, run for the tensor t: it returns early without a
\* tensor, otherwise it starts the conversion of the cutout to a blob
RenderEffect(t) ==
    rendering' = IF t = NoTensor THEN rendering ELSE rendering \cup {t.req}

\* the canvas click handler without its mode test
CanvasClick_AnyMode(x, y) ==
    /\ event' = Ev("canvasClick", x, y, 0)
    /\ Len(clicks) < MaxClicks
    /\ Len(sent) < MaxRequests
    /\ clicks' = Append(clicks, onMaskClick(x, y, frame, bitmap))
    /\ RequestEffect(clicks')
    /\ UNCHANGED <<bitmap, frame, mode, lastReceived, rendered, rendering>>

\* a click on the canvas at (x, y)
CanvasClick(x, y) ==
    /\ event' = Ev("canvasClick", x, y, 0)
    /\ IF mode # "edit"
       THEN UNCHANGED <<clicks, output, predMasks, sent, inflight>>
       ELSE /\ Len(clicks) < MaxClicks
            /\ Len(sent) < MaxRequests
            /\ clicks' = Append(clicks, onMaskClick(x, y, frame, bitmap))
            /\ RequestEffect(clicks')
    /\ UNCHANGED <<bitmap, frame, mode, lastReceived, rendered, rendering>>

\* the Undo handler run although the click list is empty
Undo_NotDisabled ==
    /\ Len(clicks) > 1 => Len(sent) < MaxRequests
    /\ event' = Ev("undo", 0, 0, 0)
    /\ clicks' = UndoClicks(clicks)
    /\ RequestEffect(clicks')
    /\ lastReceived' = IF Len(clicks') = 0 THEN NoTensor ELSE lastReceived
    /\ IF output' # output THEN RenderEffect(output') ELSE UNCHANGED rendering
    /\ UNCHANGED <<bitmap, frame, mode, rendered>>

\* a press on the Undo button, which is disabled while the click list is
\* empty: the handler does not run then
Undo ==
    /\ event' = Ev("undo", 0, 0, 0)
    /\ IF Len(clicks) = 0
       THEN UNCHANGED <<clicks, output, predMasks, sent, inflight,
                        lastReceived, rendering>>
       ELSE /\ Len(clicks) > 1 => Len(sent) < MaxRequests
            /\ clicks' = UndoClicks(clicks)
            /\ RequestEffect(clicks')
            /\ lastReceived' = IF Len(clicks') = 0 THEN NoTensor ELSE lastReceived
            /\ IF output' # output
               THEN RenderEffect(output')
               ELSE UNCHANGED rendering
    /\ UNCHANGED <<bitmap, frame, mode, rendered>>

\* the listener with a request effect that also depends on the masks
Listener_Refetch(id) ==
    /\ id \in inflight
    /\ event' = Ev("message", 0, 0, id)
    /\ output' = OutputOf(id)
    /\ predMasks' = Append(predMasks, MaskOf(id))
    /\ lastReceived' = IF Len(clicks) = 0 THEN NoTensor ELSE MaskOf(id)
    /\ IF Len(clicks) > 0 /\ Len(sent) < MaxRequests
       THEN /\ sent' = Append(sent, Feeds(clicks, predMasks', bitmap))
            /\ inflight' = (inflight \ {id}) \cup {Len(sent) + 1}
       ELSE /\ sent' = sent
            /\ inflight' = inflight \ {id}
    /\ RenderEffect(output')
    /\ UNCHANGED <<bitmap, frame, clicks, mode, rendered>>

\* the message listener, run for the response to request id
Listener(id) ==
    /\ id \in inflight
    /\ inflight' = inflight \ {id}
    /\ event' = Ev("message", 0, 0, id)
    /\ output' = OutputOf(id)
    /\ predMasks' = Append(predMasks, MaskOf(id))
    /\ lastReceived' = IF Len(clicks) = 0 THEN NoTensor ELSE MaskOf(id)
    /\ RenderEffect(output')
    /\ UNCHANGED <<bitmap, frame, clicks, mode, sent, rendered>>

\* the Edit and Preview buttons, each disabled in its own mode
SetMode(m) ==
    /\ mode # m
    /\ mode' = m
    /\ event' = Ev("mode", 0, 0, 0)
    /\ RenderEffect(output)
    /\ UNCHANGED <<bitmap, frame, clicks, output, predMasks, sent, inflight,
                   lastReceived, rendered>>

\* onRenderedImage, called with the blob of the cutout of mask id
RenderDone(id) ==
    /\ id \in rendering
    /\ rendering' = rendering \ {id}
    /\ rendered' = BlobOf(id)
    /\ event' = Ev("rendered", 0, 0, id)
    /\ UNCHANGED <<bitmap, frame, clicks, output, predMasks, mode, sent,
                   inflight, lastReceived>>

Next ==
    \/ \E p \in CanvasPoints : CanvasClick(p[1], p[2])
    \/ Undo
    \/ \E id \in 1..MaxRequests : Listener(id)
    \/ \E m \in {"edit", "preview"} : SetMode(m)

\* the Editor's handlers and effects; the blob conversions started by the
\* Renderer stay pending
Spec == Init /\ [][Next]_vars

RenderNext ==
    \/ Next
    \/ \E id \in 1..MaxRequests : RenderDone(id)

\* the same with the completion of the blob conversions, which writes
\* rendered, rendering and event only
RenderSpec == Init /\ [][RenderNext]_vars

----------------------------------------------------------------------------
(* Vocabulary of the properties *)

\* the click-list length request id was sent at
StepOf(id) == Len(sent[id].clicks)

\* this step is the arrival of the response to request id
Arrival(id) == id \in inflight /\ inflight' = inflight \ {id}

\* this step removes the last click
UndoStep == Len(clicks) > 0 /\ event'.type = "undo" /\ clicks' = UndoClicks(clicks)

\* the last event was a canvas click that was accepted (edit mode)
ClickAccepted == event.type = "canvasClick" /\ mode = "edit"

\* the click that was appended last
LastClick == clicks[Len(clicks)]

\* the request that was posted last
LastSent == sent[Len(sent)]

----------------------------------------------------------------------------
(* C1: a response to a request sent at click-list length k that arrives
   while the click list has another length leaves the current mask
   unchanged. *)
C1_StaleResponseDiscarded ==
    [][\A id \in 1..Len(sent) :
          (Arrival(id) /\ StepOf(id) # Len(clicks)) => output' = output]_vars

(* C2: an empty click list implies no current mask and no retained masks,
   also when a response arrives after the click list was undone to empty. *)
C2_EmptyClicksNoMask ==
    Len(clicks) = 0 => (output = NoTensor /\ predMasks = <<>>)

(* C3: the number of retained masks never exceeds the click-list length, and
   a mask produced for a longer click list is neither displayed nor sent as
   previous-mask feedback for a shorter one. *)
C3_MasksMatchClicks ==
    /\ Len(predMasks) <= Len(clicks)
    /\ output # NoTensor => StepOf(output.req) <= Len(clicks)
    /\ \A i \in 1..Len(sent) :
          sent[i].last_pred_mask # NoTensor =>
              StepOf(sent[i].last_pred_mask.req) <= StepOf(i)

(* C4: undo to a non-empty click list sends no request and displays either
   the mask received for exactly that click list or no mask. *)
C4_UndoReplaysCache ==
    [][(UndoStep /\ Len(clicks') > 0) =>
          /\ sent' = sent
          /\ \/ output' = NoTensor
             \/ sent[output'.req].clicks = clicks']_vars

(* C5: where max(width, height) * (500 / min(width, height)) exceeds 1333,
   the preview scale satisfies max(width, height) * scale = 1333; elsewhere
   it is 500 / min(width, height). *)
C5_ScaleCeiling ==
    \A i \in 1..Len(sent) :
        LET ms    == sent[i].modelScale
            mx    == MathMax(ms.width, ms.height)
            naive == RatDiv(Num(500), Num(MathMin(ms.width, ms.height)))
        IN  IF RatGT(RatMul(Num(mx), naive), Num(1333))
            THEN RatMul(Num(mx), ms.scale) = Num(1333)
            ELSE ms.scale = naive

C8_ScaleComposition ==
    /\ \A i \in 1..Len(sent) :
          RatMul(sent[i].modelScale.uploadScale, sent[i].modelScale.onnxScale)
              = sent[i].modelScale.scale
    /\ ClickAccepted =>
          /\ RatMul(LastClick.x, scaleToFit(frame, bitmap))
                = RatMul(Num(event.x), LastSent.modelScale.scale)
          /\ RatMul(LastClick.y, scaleToFit(frame, bitmap))
                = RatMul(Num(event.y), LastSent.modelScale.scale)

C8_Witness ==
    /\ ClickAccepted
    /\ Len(sent) = 2
    /\ bitmap[1] # bitmap[2]
    /\ LastSent.modelScale.onnxScale # LastSent.modelScale.scale

(* C9: every step that posts a request posts exactly one, which carries the
   whole click list of that moment in order and, as previous mask, the mask
   received last since the click list was last empty, or none if no mask
   was received since then. *)
C9_RequestCarriesClicksAndLastMask ==
    [][sent' # sent =>
          /\ Len(sent') = Len(sent) + 1
          /\ SubSeq(sent', 1, Len(sent)) = sent
          /\ sent'[Len(sent')].clicks = clicks'
          /\ sent'[Len(sent')].last_pred_mask = lastReceived]_vars

(* C10: in every step the click list stays as it is, gains one click at the
   end or loses its last click, and the arrival of a mask leaves it as it
   is. *)
C10_ClicksAppendOrDropLast ==
    [][/\ \/ clicks' = clicks
          \/ /\ Len(clicks') = Len(clicks) + 1
             /\ SubSeq(clicks', 1, Len(clicks)) = clicks
          \/ /\ Len(clicks) > 0
             /\ clicks' = SubSeq(clicks, 1, Len(clicks) - 1)
       /\ \A id \in 1..Len(sent) : Arrival(id) => clicks' = clicks]_vars

C10_Witness ==
    /\ event.type = "undo"
    /\ Len(clicks) = 1
    /\ Len(sent) = 3
    /\ sent[2].clicks[1] # sent[2].clicks[2]
    /\ clicks = <<sent[2].clicks[1]>>

(* C11: an undo that removes the only click clears the current mask and the
   retained masks and posts no request. *)
C11_UndoToEmptyClears ==
    [][(UndoStep /\ Len(clicks) = 1) =>
          /\ clicks' = <<>>
          /\ output' = NoTensor
          /\ predMasks' = <<>>
          /\ sent' = sent
          /\ inflight' = inflight]_vars

C11_Witness ==
    /\ event.type = "undo"
    /\ clicks = <<>>
    /\ Len(sent) = 1
    /\ inflight = {}
    /\ output = NoTensor
    /\ predMasks = <<>>

(* C12: as long as no response arrives and nothing is undone, so also while
   a request stays unanswered, no click is rolled back and the current mask
   and the retained masks keep their values. *)
C12_UnansweredKeepsState ==
    [][((\A id \in 1..Len(sent) : ~Arrival(id)) /\ ~UndoStep) =>
          /\ Len(clicks') >= Len(clicks)
          /\ SubSeq(clicks', 1, Len(clicks)) = clicks
          /\ output' = output
          /\ predMasks' = predMasks]_vars

C12_Witness ==
    /\ ClickAccepted
    /\ Len(clicks) = 2
    /\ LastSent.clicks = clicks
    /\ Len(sent) \in inflight
    /\ output # NoTensor
    /\ predMasks # <<>>

(* C13: once every request has been answered and the user issues nothing
   more, the current mask is the response to the request posted last, the
   one for the final click list, or there is no mask when the final click
   list is empty.  With nothing in flight and no further user action the
   state no longer changes, so the claim requires this of every state with
   no request in flight. *)
C13_ConvergesToFinalRequest ==
    inflight = {} =>
        IF Len(clicks) = 0
        THEN output = NoTensor
        ELSE /\ LastSent.clicks = clicks
             /\ output = OutputOf(Len(sent))

(* C14: a step that changes the click list and leaves it non-empty posts
   exactly one request, carrying the new click list; a step that leaves the
   click list as it is or empties it, and so the arrival of a mask, posts
   none. *)
C14_RequestsFollowClicks ==
    [][/\ (clicks' # clicks /\ Len(clicks') > 0) =>
             /\ Len(sent') = Len(sent) + 1
             /\ SubSeq(sent', 1, Len(sent)) = sent
             /\ sent'[Len(sent')].clicks = clicks'
       /\ (clicks' = clicks \/ Len(clicks') = 0) => sent' = sent
       /\ \A id \in 1..Len(sent) : Arrival(id) => sent' = sent]_vars

C14_Witness ==
    /\ event.type = "message"
    /\ Len(clicks) = 1
    /\ Len(sent) = 1
    /\ output = OutputOf(1)
    /\ predMasks = <<MaskOf(1)>>

(* C15: a canvas click in preview mode changes neither the click list nor
   the current mask nor the retained masks and posts no request, and a
   change of mode changes neither the click list nor the masks. *)
C15_ClicksOnlyInEditMode ==
    [][/\ (event'.type = "canvasClick" /\ mode = "preview") =>
             UNCHANGED <<clicks, output, predMasks, sent, inflight>>
       /\ mode' # mode => UNCHANGED <<clicks, output, predMasks>>]_vars

C15_Witness ==
    /\ event.type = "canvasClick"
    /\ mode = "preview"
    /\ Len(clicks) = 1
    /\ Len(sent) = 1
    /\ output = OutputOf(1)

(* C16: where there is no current mask the rendered cutout is null, and a
   rendered cutout is the one made from the current mask. *)
C16_RenderedFollowsOutput ==
    /\ output = NoTensor => rendered = NoBlob
    /\ rendered # NoBlob => rendered.req = output.req

(* C17: a press on Undo while the click list is empty changes nothing: the
   click list stays empty, the masks stay as they are and no request is
   posted; a press while the click list is non-empty removes one click. *)
C17_UndoOnEmptyIsNoOp ==
    [][/\ (event'.type = "undo" /\ Len(clicks) = 0) =>
             UNCHANGED <<clicks, output, predMasks, sent, inflight>>
       /\ (event'.type = "undo" /\ Len(clicks) > 0) =>
             Len(clicks') = Len(clicks) - 1]_vars

C17_Witness ==
    /\ event.type = "undo"
    /\ clicks = <<>>
    /\ output # NoTensor
    /\ inflight = {}

====
